---- MODULE Spec2Model ----
(***************************************************************************)
(* heatmap_ixps of ixp-analysis.py: for each region of COUNTRY_CODES the   *)
(* membership relation is queried, grouped per exchange, pruned, turned    *)
(* into a co-membership matrix, clustered and reordered for the heatmap.   *)
(* One call of heatmap_ixps is modelled; its loop runs one region per      *)
(* step.  Python dicts are sequences of [k, v] records in insertion order, *)
(* strings the code inspects (lower, endswith) are sequences of            *)
(* characters, and numbers the code may divide are pairs <<num, den>>.     *)
(***************************************************************************)
EXTENDS Integers, Sequences, FiniteSets, TLC

VARIABLES pc, ci, cfg, queried, res, ixs, countries, asns,
          membership_per_dataset, to_remove, threshold_ixp,
          nb_members_matrix, clusters, labels, sorted_labels, sorted_matrix,
          title, written, warnings, errors

vars == <<pc, ci, cfg, queried, res, ixs, countries, asns,
          membership_per_dataset, to_remove, threshold_ixp,
          nb_members_matrix, clusters, labels, sorted_labels, sorted_matrix,
          title, written, warnings, errors>>

(***************************************************************************)
(* Bounds of the model.                                                    *)
(***************************************************************************)
\* regions of COUNTRY_CODES the loop visits
NumRegions == 2
\* member ASNs of the largest exchange
MaxAsn == 120

(***************************************************************************)
(* Configuration.                                                          *)
(***************************************************************************)
COUNTRY_CODES ==
  <<
     <<"A","F">>, <<"A","S">>, <<"A","U">>, <<"B","D">>, <<"B","T">>,
     <<"I","O">>, <<"B","N">>, <<"K","H">>, <<"C","N">>, <<"C","X">>,
     <<"C","C">>, <<"C","K">>, <<"T","L">>, <<"F","J">>, <<"P","F">>,
     <<"T","F">>, <<"G","U">>, <<"H","K">>, <<"I","N">>, <<"I","D">>,
     <<"J","P">>, <<"K","I">>, <<"K","P">>, <<"K","R">>, <<"L","A">>,
     <<"M","O">>, <<"M","Y">>, <<"M","V">>, <<"M","H">>, <<"F","M">>,
     <<"M","N">>, <<"M","M">>, <<"N","R">>, <<"N","P">>, <<"N","C">>,
     <<"N","Z">>, <<"N","U">>, <<"N","F">>, <<" ","M","P">>, <<"P","K">>,
     <<"P","W">>, <<"P","G">>, <<"P","H">>, <<"P","N">>, <<"W","S">>,
     <<"S","G">>, <<"S","B">>, <<"L","K">>, <<"T","W">>, <<"T","H">>,
     <<"T","K">>, <<"T","O">>, <<"T","V">>, <<"V","U">>, <<"V","N">>,
     <<"W","F">> >>

EYEBALL_MIN_PERC == 1

HEGE_MIN == <<1, 100>>

MIN_NB_AS == <<5, 100>>

NORMALIZE == FALSE

SourceConfig ==
  [MIN_NB_AS |-> MIN_NB_AS, NORMALIZE |-> NORMALIZE,
   HEGE_MIN |-> HEGE_MIN, EYEBALL_MIN_PERC |-> <<EYEBALL_MIN_PERC, 1>>]

\* the values the constants can be edited to; nothing in the script checks them
ConfigSurface ==
  { SourceConfig,
    [SourceConfig EXCEPT !.NORMALIZE = TRUE],
    [SourceConfig EXCEPT !.MIN_NB_AS = <<-5, 100>>],
    [SourceConfig EXCEPT !.HEGE_MIN = <<-1, 100>>],
    [SourceConfig EXCEPT !.EYEBALL_MIN_PERC = <<-1, 1>>] }

(***************************************************************************)
(* Strings.                                                                *)
(***************************************************************************)
UpperToLower ==
  [c \in {"A","B","C","D","E","F","G","H","I","J","K","L","M","N","O","P",
          "Q","R","S","T","U","V","W","X","Y","Z"} |->
     CASE c = "A" -> "a" [] c = "B" -> "b" [] c = "C" -> "c" [] c = "D" -> "d"
       [] c = "E" -> "e" [] c = "F" -> "f" [] c = "G" -> "g" [] c = "H" -> "h"
       [] c = "I" -> "i" [] c = "J" -> "j" [] c = "K" -> "k" [] c = "L" -> "l"
       [] c = "M" -> "m" [] c = "N" -> "n" [] c = "O" -> "o" [] c = "P" -> "p"
       [] c = "Q" -> "q" [] c = "R" -> "r" [] c = "S" -> "s" [] c = "T" -> "t"
       [] c = "U" -> "u" [] c = "V" -> "v" [] c = "W" -> "w" [] c = "X" -> "x"
       [] c = "Y" -> "y" [] c = "Z" -> "z"]

\* str.lower()
Lower(s) ==
  [i \in 1..Len(s) |->
     IF s[i] \in DOMAIN UpperToLower THEN UpperToLower[s[i]] ELSE s[i]]

\* str.endswith(suffix)
EndsWith(s, suffix) ==
  /\ Len(suffix) <= Len(s)
  /\ SubSeq(s, Len(s) - Len(suffix) + 1, Len(s)) = suffix

(***************************************************************************)
(* Numbers.                                                                *)
(***************************************************************************)
Max(a, b) == IF a >= b THEN a ELSE b

\* int(n * q) for q = <<num, den>>, den > 0: truncation towards zero
IntOfProduct(n, q) ==
  IF n * q[1] >= 0 THEN (n * q[1]) \div q[2]
                   ELSE 0 - ((0 - n * q[1]) \div q[2])

RECURSIVE Gcd(_, _)
Gcd(a, b) == IF b = 0 THEN a ELSE Gcd(b, a % b)

\* a / b of two ints, b # 0: the quotient in lowest terms
TrueDiv(a, b) == IF a = 0 THEN <<0, 1>> ELSE <<a \div Gcd(a, b), b \div Gcd(a, b)>>

(***************************************************************************)
(* Dicts of sets (defaultdict(set)), in insertion order.                   *)
(***************************************************************************)
Keys(d) == [i \in 1..Len(d) |-> d[i].k]

KeySet(d) == {d[i].k : i \in 1..Len(d)}

\* d[key].add(x)
DictAdd(d, key, x) ==
  IF key \in KeySet(d)
    THEN [i \in 1..Len(d) |->
            IF d[i].k = key THEN [k |-> key, v |-> d[i].v \cup {x}] ELSE d[i]]
    ELSE Append(d, [k |-> key, v |-> {x}])

(***************************************************************************)
(* The region's relation: rows (ix_name, member_asn, ix_country,           *)
(* data_source) as the membership queries return them.                     *)
(***************************************************************************)
\* a null ix_country
None == <<"None">>

\* ix.name + ' - ' + upper(coalesce(ix_country.country_code, 'zz')) AS ix_name
IxName(name, country) ==
  name \o <<" ", "-", " ">> \o (IF country = None THEN <<"Z", "Z">> ELSE country)

Row(name, asn, country, source) ==
  [ix_name |-> IxName(name, country), member_asn |-> asn,
   ix_country |-> country, data_source |-> source]

\* the rows of one exchange, one per member
Block(name, country, members, source) ==
  [i \in 1..Len(members) |-> Row(name, members[i], country, source)]

Interval(lo, hi) == [i \in 1..(hi - lo + 1) |-> lo + i - 1]

AF == COUNTRY_CODES[1]

AS == COUNTRY_CODES[2]

\* the exchanges the k-th group of rows of a relation may be about: two
\* exchanges of five members sharing two, one tiny or unlocated exchange, a
\* second spelling of the second exchange, and one exchange large enough to
\* lift the fractional threshold above 5
Slots ==
  << { Block(<<"I","X","_","A">>, c, Interval(1, 5), "PeeringDB") : c \in {AF, AS} },
     { Block(<<"I","X","_","B">>, c, <<1, 2, 6, 7, 8>>, "PeeringDB") : c \in {AF, AS} },
     { Block(<<"I","X","_","C">>, c, <<9>>, "PeeringDB") : c \in {AF, AS} }
       \cup { Block(<<"I","X","_","C">>, None, Interval(3, 9), "PCH"),
              Block(<<"i","x","_","b">>, AS, <<1, 2, 6, 7, 8>>, "PCH"),
              Block(<<"I","X","_","D">>, AS, Interval(1, MaxAsn), "PCH") } >>

\* the relations made of the first n groups
RECURSIVE RelationsOf(_)
RelationsOf(n) ==
  IF n = 0 THEN { <<>> }
  ELSE { r \o b : r \in RelationsOf(n - 1), b \in Slots[n] }

\* what a region's query may return
Relations == UNION { RelationsOf(n) : n \in 0..Len(Slots) }

(***************************************************************************)
(* Grouping (the loop over res).                                           *)
(***************************************************************************)
\* ixs = defaultdict(set), countries = defaultdict(set), ...
NewDict(previous) == <<>>

\* a set that is not emptied at the top of the iteration
KeptSet(previous) == previous

\* asns = set()
NewSet(previous) == {}

GroupRow(st, row) ==
  [ixs |-> DictAdd(st.ixs, Lower(row.ix_name), row.member_asn),
   asns |-> st.asns \cup {row.member_asn},
   countries |-> DictAdd(st.countries, row.ix_country, row.member_asn),
   membership_per_dataset |->
     DictAdd(st.membership_per_dataset, row.data_source,
             <<row.ix_name, row.member_asn>>)]

\* for ix_name, member_asn, ix_country, data_source in res: rows lo..hi in
\* order, from the locals st
RECURSIVE GroupFrom(_, _, _, _)
GroupFrom(st, rows, lo, hi) ==
  IF lo > hi THEN st
  ELSE IF lo = hi THEN GroupRow(st, rows[lo])
  ELSE CHOOSE g \in { GroupFrom(s, rows, ((lo + hi) \div 2) + 1, hi) :
                       s \in {GroupFrom(st, rows, lo, (lo + hi) \div 2)} } : TRUE

(***************************************************************************)
(* Pruning.                                                                *)
(***************************************************************************)
\* the fraction alone, without the floor of 5
ThresholdNoFloor(nb_asns, min_nb_as) == IntOfProduct(nb_asns, min_nb_as)

\* threshold_ixp = max(int(len(asns)*MIN_NB_AS), 5)
Threshold(nb_asns, min_nb_as) == Max(IntOfProduct(nb_asns, min_nb_as), 5)

\* the fractional threshold applied to domestic exchanges too
UnpopularFlat(ix, members, threshold, country_code) ==
  Cardinality(members) < threshold

\* both comparisons off by one (<= for <)
UnpopularStrict(ix, members, threshold, country_code) ==
  \/ /\ Cardinality(members) <= threshold
     /\ ~EndsWith(ix, Lower(country_code))
  \/ /\ EndsWith(ix, Lower(country_code))
     /\ Cardinality(members) <= 5

\* the two branches that append ix to to_remove
Unpopular(ix, members, threshold, country_code) ==
  \/ /\ Cardinality(members) < threshold
     /\ ~EndsWith(ix, Lower(country_code))
  \/ /\ EndsWith(ix, Lower(country_code))
     /\ Cardinality(members) < 5

ToRemove(d, threshold, country_code) ==
  Keys(SelectSeq(d, LAMBDA e : Unpopular(e.k, e.v, threshold, country_code)))

\* for ix in to_remove: ixs.pop(ix)
PopAll(d, removed) ==
  SelectSeq(d, LAMBDA e : \A i \in 1..Len(removed) : removed[i] # e.k)

(***************************************************************************)
(* The matrix.                                                             *)
(***************************************************************************)
\* the division done whatever NORMALIZE says
CellAlwaysDivides(members0, members1, normalize) ==
  TrueDiv(Cardinality(members0 \cap members1), Cardinality(members0))

\* the division never done
CellNeverDivides(members0, members1, normalize) ==
  <<Cardinality(members0 \cap members1), 1>>

\* row.append(len(members0.intersection(members1))), then the division
Cell(members0, members1, normalize) ==
  IF normalize
    THEN TrueDiv(Cardinality(members0 \cap members1), Cardinality(members0))
    ELSE <<Cardinality(members0 \cap members1), 1>>

Matrix(d, normalize) ==
  [i \in 1..Len(d) |-> [j \in 1..Len(d) |-> Cell(d[i].v, d[j].v, normalize)]]

\* row[-1] /= len(members0) raises on an empty member set
ZeroDivisionError(d, normalize) ==
  normalize /\ \E i \in 1..Len(d) : d[i].v = {}

\* the test off by one (> 1 for > 2)
ClusterableFromTwo(matrix) == Len(matrix) > 1

\* if len(nb_members_matrix) > 2
Clusterable(matrix) == Len(matrix) > 2

(***************************************************************************)
(* Clustering and reordering.                                              *)
(***************************************************************************)
IdsOf(c) == {c[i] : i \in 1..Len(c)}

MaxOf(S) == CHOOSE m \in S : \A x \in S : x <= m

\* fcluster(linkage(matrix, 'ward'), 0.2, criterion='distance'): flat cluster
\* ids 1..k, every id in use.  Equal rows are at distance 0 and share an id.
\* Rows of counts that differ are at distance >= 1 and never share one; rows
\* of fractions that differ may or may not.
Fcluster(matrix, normalize) ==
  { c \in [1..Len(matrix) -> 1..Len(matrix)] :
      /\ IdsOf(c) = 1..MaxOf(IdsOf(c))
      /\ \A i, j \in 1..Len(matrix) :
           /\ matrix[i] = matrix[j] => c[i] = c[j]
           /\ (~normalize /\ c[i] = c[j]) => matrix[i] = matrix[j] }

\* list.index(x): the first position holding x
Index(c, x) == CHOOSE i \in 1..Len(c) : c[i] = x /\ \A j \in 1..(i - 1) : c[j] # x

SortedLabels(c, lbls) ==
  [i \in 1..MaxOf(IdsOf(c)) |-> lbls[Index(c, i)]]

SortedMatrix(c, matrix) ==
  [i \in 1..MaxOf(IdsOf(c)) |->
     [j \in 1..MaxOf(IdsOf(c)) |-> matrix[Index(c, i)][Index(c, j)]]]

(***************************************************************************)
(* The title.                                                              *)
(***************************************************************************)
\* sorted(items, key=lambda x: len(x[1]), reverse=True): stable, largest first
RECURSIVE InsertByLen(_, _)
InsertByLen(sorted, e) ==
  IF sorted = <<>> THEN <<e>>
  ELSE IF Cardinality(e.v) > Cardinality(Head(sorted).v) THEN <<e>> \o sorted
  ELSE <<Head(sorted)>> \o InsertByLen(Tail(sorted), e)

RECURSIVE SortedByLen(_, _)
SortedByLen(d, n) ==
  IF n = 0 THEN <<>> ELSE InsertByLen(SortedByLen(d, n - 1), d[n])

\* top_countries[:5]
TopCountries(d) ==
  SubSeq(SortedByLen(d, Len(d)), 1, IF Len(d) < 5 THEN Len(d) ELSE 5)

Counts(d) == [i \in 1..Len(d) |-> <<d[i].k, Cardinality(d[i].v)>>]

Title(country_code, nb_asns, threshold, per_dataset, by_country) ==
  [country_code |-> country_code, nb_asns |-> nb_asns, threshold |-> threshold,
   datasets |-> Counts(per_dataset), top |-> Counts(TopCountries(by_country))]

\* for cc, asns in top_countries[:5]: the name asns ends bound to the last set
AsnsAfterTitle(current, by_country) ==
  IF by_country = <<>> THEN current
  ELSE TopCountries(by_country)[Len(TopCountries(by_country))].v

(***************************************************************************)
(* heatmap_ixps.                                                           *)
(***************************************************************************)
\* before the first iteration no local is bound; they are modelled as empty
InitLocals ==
  /\ pc = "loop"
  /\ ci = 0
  /\ queried = <<>>
  /\ res = <<>>
  /\ ixs = <<>>
  /\ countries = <<>>
  /\ asns = {}
  /\ membership_per_dataset = <<>>
  /\ to_remove = <<>>
  /\ threshold_ixp = 0
  /\ nb_members_matrix = <<>>
  /\ clusters = <<>>
  /\ labels = <<>>
  /\ sorted_labels = <<>>
  /\ sorted_matrix = <<>>
  /\ title = <<>>
  /\ written = <<>>
  /\ warnings = <<>>
  /\ errors = <<>>

Init == cfg = SourceConfig /\ InitLocals

InitCfg == cfg \in ConfigSurface /\ InitLocals

\* db.execute_query(query, country_code=..., hege_min=..., eyeball_min_perc=...)
QueryCall(country_code, config) ==
  [country_code |-> country_code, hege_min |-> config.HEGE_MIN,
   eyeball_min_perc |-> config.EYEBALL_MIN_PERC]

\* an exception that is caught and the loop resumed
AfterQueryErrorCaught == "loop"

\* where control goes when db.execute_query raises: heatmap_ixps has no
\* handler, the exception leaves the loop and ends the script
AfterQueryError == "crashed"

\* the locals as the for loop over res leaves them
Grouped(rows, old_ixs, old_countries, old_asns, old_per_dataset) ==
  GroupFrom([ixs |-> NewDict(old_ixs), asns |-> NewSet(old_asns),
             countries |-> NewDict(old_countries),
             membership_per_dataset |-> NewDict(old_per_dataset)],
            rows, 1, Len(rows))

\* one iteration of the loop whose query raises
QueryFails ==
  /\ pc = "loop"
  /\ ci < NumRegions
  /\ ci' = ci + 1
  /\ queried' = Append(queried, QueryCall(COUNTRY_CODES[ci + 1], cfg))
  /\ ixs' = NewDict(ixs)
  /\ countries' = NewDict(countries)
  /\ asns' = NewSet(asns)
  /\ membership_per_dataset' = NewDict(membership_per_dataset)
  /\ errors' = Append(errors, COUNTRY_CODES[ci + 1])
  /\ pc' = AfterQueryError
  /\ UNCHANGED <<cfg, res, to_remove, threshold_ixp, nb_members_matrix,
                 clusters, labels, sorted_labels, sorted_matrix, title,
                 written, warnings>>

\* the rest of an iteration, from the pruned dict on
Render(country_code, g, threshold, kept, matrix) ==
  IF Clusterable(matrix)
    THEN
      /\ \E c \in Fcluster(matrix, cfg.NORMALIZE) :
           /\ clusters' = c
           /\ sorted_labels' = SortedLabels(c, Keys(kept))
           /\ sorted_matrix' = SortedMatrix(c, matrix)
      /\ labels' = Keys(kept)
      /\ title' = Title(country_code, Cardinality(g.asns), threshold,
                        g.membership_per_dataset, g.countries)
      /\ asns' = AsnsAfterTitle(g.asns, g.countries)
      /\ written' = Append(written, country_code)
      /\ UNCHANGED warnings
    ELSE
      /\ warnings' = Append(warnings, country_code)
      /\ asns' = g.asns
      /\ UNCHANGED <<clusters, labels, sorted_labels, sorted_matrix, title,
                     written>>

\* one iteration of the loop whose query returns rows
ProcessRegion(rows) ==
  /\ pc = "loop"
  /\ ci < NumRegions
  /\ \E country_code \in {COUNTRY_CODES[ci + 1]},
        g \in {Grouped(rows, ixs, countries, asns, membership_per_dataset)} :
       \E threshold \in {Threshold(Cardinality(g.asns), cfg.MIN_NB_AS)} :
         \E removed \in {ToRemove(g.ixs, threshold, country_code)} :
           \E kept \in {PopAll(g.ixs, removed)} :
             /\ ci' = ci + 1
             /\ queried' = Append(queried, QueryCall(country_code, cfg))
             /\ res' = rows
             /\ countries' = g.countries
             /\ membership_per_dataset' = g.membership_per_dataset
             /\ threshold_ixp' = threshold
             /\ to_remove' = removed
             /\ ixs' = kept
             /\ IF ZeroDivisionError(kept, cfg.NORMALIZE)
                  THEN /\ pc' = "crashed"
                       /\ asns' = g.asns
                       /\ UNCHANGED <<nb_members_matrix, clusters, labels,
                                      sorted_labels, sorted_matrix, title,
                                      written, warnings>>
                  ELSE \E matrix \in {Matrix(kept, cfg.NORMALIZE)} :
                         /\ pc' = "loop"
                         /\ nb_members_matrix' = matrix
                         /\ Render(country_code, g, threshold, kept, matrix)
  /\ UNCHANGED <<cfg, errors>>

\* COUNTRY_CODES is exhausted and heatmap_ixps returns
Return ==
  /\ pc = "loop"
  /\ ci = NumRegions
  /\ pc' = "done"
  /\ UNCHANGED <<ci, cfg, queried, res, ixs, countries, asns,
                 membership_per_dataset, to_remove, threshold_ixp,
                 nb_members_matrix, clusters, labels, sorted_labels,
                 sorted_matrix, title, written, warnings, errors>>

Next ==
  \/ \E rows \in Relations : ProcessRegion(rows)
  \/ QueryFails
  \/ Return

Spec == Init /\ [][Next]_vars

SpecCfg == InitCfg /\ [][Next]_vars

(***************************************************************************)
(* Vocabulary of the properties: what a relation says, read off its rows   *)
(* without the loop's dicts.                                               *)
(***************************************************************************)
\* the region of the iteration the locals belong to
Region == COUNTRY_CODES[ci]

\* the last iteration ran to its end
Processed == ci >= 1 /\ pc \in {"loop", "done"}

\* it wrote the region's artifact
Wrote == Processed /\ written # <<>> /\ written[Len(written)] = Region

\* it printed the region's warning
Warned == Processed /\ warnings # <<>> /\ warnings[Len(warnings)] = Region

\* no threshold of the configuration is negative
ValidConfig(c) ==
  /\ c.MIN_NB_AS[1] >= 0
  /\ c.HEGE_MIN[1] >= 0
  /\ c.EYEBALL_MIN_PERC[1] >= 0

\* the member set stored under a key
Get(d, key) == d[CHOOSE i \in 1..Len(d) : d[i].k = key].v

AsnsIn(rows) == {rows[i].member_asn : i \in 1..Len(rows)}

LabelsIn(rows) == {Lower(rows[i].ix_name) : i \in 1..Len(rows)}

MembersAt(rows, label) ==
  {rows[i].member_asn : i \in {j \in 1..Len(rows) : Lower(rows[j].ix_name) = label}}

PeersIn(rows, country) ==
  {rows[i].member_asn : i \in {j \in 1..Len(rows) : rows[j].ix_country = country}}

ReportedBy(rows, source) ==
  {<<rows[i].ix_name, rows[i].member_asn>> :
     i \in {j \in 1..Len(rows) : rows[j].data_source = source}}

Domestic(label, country_code) == EndsWith(label, Lower(country_code))

\* max(floor(total_distinct_asns * 0.05), 5)
FractionalMinimum(rows) == Max((Cardinality(AsnsIn(rows)) * 5) \div 100, 5)

ApplicableMinimum(rows, label, country_code) ==
  IF Domestic(label, country_code) THEN 5 ELSE FractionalMinimum(rows)

Survivors(rows, country_code) ==
  {l \in LabelsIn(rows) :
     Cardinality(MembersAt(rows, l)) >= ApplicableMinimum(rows, l, country_code)}

Count(seq, x) == Cardinality({i \in 1..Len(seq) : seq[i] = x})

\* the labels of one cluster, in the order of lbls
ClusterLabels(c, lbls, id) ==
  LET at == SelectSeq(Interval(1, Len(lbls)), LAMBDA i : c[i] = id)
  IN  [n \in 1..Len(at) |-> lbls[at[n]]]

\* the labels cluster by cluster, ids ascending
RECURSIVE GroupedByCluster(_, _, _)
GroupedByCluster(c, lbls, k) ==
  IF k = 0 THEN <<>>
  ELSE GroupedByCluster(c, lbls, k - 1) \o ClusterLabels(c, lbls, k)

IX_A == <<"I","X","_","A">>

IX_B == <<"I","X","_","B">>

IX_C == <<"I","X","_","C">>

\* the worked example, the three exchanges hosted in ca, cb and cc
ExampleRelation(ca, cb, cc) ==
  Block(IX_A, ca, Interval(1, 5), "PeeringDB")
    \o Block(IX_B, cb, <<1, 2, 6, 7, 8>>, "PeeringDB")
    \o Block(IX_C, cc, <<9>>, "PeeringDB")

(***************************************************************************)
(* Properties.                                                             *)
(***************************************************************************)
\* C1: after pruning, the exchanges left in ixs are exactly the exchanges of
\* the region's relation whose distinct-member set reaches their minimum (5
\* for a label ending with the region code, max(floor(total * 0.05), 5)
\* otherwise), each with all its members, and every label given to the
\* heatmap is one of them.
C1_PrunedAreExactlyThePopular ==
  Processed =>
    /\ KeySet(ixs) = Survivors(res, Region)
    /\ \A i \in 1..Len(ixs) : ixs[i].v = MembersAt(res, ixs[i].k)
    /\ Wrote => \A i \in 1..Len(sorted_labels) :
                  sorted_labels[i] \in Survivors(res, Region)

\* the fractional threshold is above 5 and drops a foreign exchange of at
\* least 5 members, while a domestic exchange of exactly 5 members stays
C1_Witness ==
  /\ Processed
  /\ threshold_ixp > 5
  /\ \E l \in LabelsIn(res) \ KeySet(ixs) : Cardinality(MembersAt(res, l)) >= 5
  /\ \E i \in 1..Len(ixs) :
       Domestic(ixs[i].k, Region) /\ Cardinality(ixs[i].v) = 5

\* C2: the labels given to the heatmap are the labels of the pruned set,
\* each as many times (none lost, none duplicated), and cell (i, j) of the
\* reordered matrix is the cell of the i-th and j-th label.
C2_ReorderIsPermutation ==
  Wrote =>
    /\ \A l \in KeySet(ixs) \cup {sorted_labels[i] : i \in 1..Len(sorted_labels)} :
         Count(sorted_labels, l) = Count(Keys(ixs), l)
    /\ \A i, j \in 1..Len(sorted_labels) :
         sorted_matrix[i][j] =
           Cell(Get(ixs, sorted_labels[i]), Get(ixs, sorted_labels[j]),
                cfg.NORMALIZE)

\* C3, as claimed: a region whose query fails does not end the run, and the
\* run ends only once every region has been queried.
C3_FailureIsPerRegion ==
  errors # <<>> =>
    /\ pc # "crashed"
    /\ pc = "done" => Len(queried) = NumRegions

\* C3, amended: the first query that raises ends the run at that region: no
\* later region is queried, the failing region gets neither artifact nor
\* warning, and the regions before it keep theirs.
C3_FailureEndsTheRun ==
  errors # <<>> =>
    /\ pc = "crashed"
    /\ errors = <<Region>>
    /\ Len(queried) = ci
    /\ \A i \in 1..Len(written) : written[i] # Region
    /\ \A i \in 1..Len(warnings) : warnings[i] # Region
    /\ Len(written) + Len(warnings) = ci - 1

\* a query raised while regions were still to come
C3_Witness == errors # <<>> /\ ci < NumRegions

\* C4: an iteration that leaves fewer than 3 exchanges (an empty relation
\* included) prints the warning, clusters nothing, leaves matrix, labels and
\* title of the heatmap alone, writes nothing and goes on with the loop; an
\* iteration that leaves 3 or more writes the artifact and warns of nothing.
C4_FewExchangesOnlyWarn ==
  [][ (ci' = ci + 1 /\ errors' = errors) =>
        /\ Len(ixs') = Cardinality(Survivors(res', COUNTRY_CODES[ci']))
        /\ pc' = "loop"
        /\ IF Len(ixs') < 3
             THEN /\ warnings' = Append(warnings, COUNTRY_CODES[ci'])
                  /\ UNCHANGED <<written, clusters, labels, sorted_labels,
                                 sorted_matrix, title>>
             ELSE /\ written' = Append(written, COUNTRY_CODES[ci'])
                  /\ Len(sorted_matrix') >= 1
                  /\ UNCHANGED warnings ]_vars

\* the first region was skipped with a warning, two exchanges or fewer
\* being left, and the second one then wrote its artifact
C4_Witness ==
  /\ warnings = <<COUNTRY_CODES[1]>>
  /\ written = <<COUNTRY_CODES[2]>>
  /\ Wrote

\* C5: with NORMALIZE = False the matrix built from the pruned dict and the
\* reordered matrix given to the renderer are both symmetric.
C5_MatrixIsSymmetric ==
  /\ \A i, j \in 1..Len(nb_members_matrix) :
       nb_members_matrix[i][j] = nb_members_matrix[j][i]
  /\ \A i, j \in 1..Len(sorted_matrix) :
       sorted_matrix[i][j] = sorted_matrix[j][i]

\* a heatmap of three exchanges of different sizes that share members
C5_Witness ==
  /\ Wrote
  /\ Len(sorted_matrix) >= 3
  /\ \E i, j \in 1..Len(sorted_matrix) :
       /\ sorted_matrix[i][i] # sorted_matrix[j][j]
       /\ sorted_matrix[i][j][1] > 0

\* C6: the diagonal cell of a surviving exchange is the size of its member
\* set without normalization and 1 with it; every surviving exchange has at
\* least 5 members and no run ends on a division by zero.
C6_DiagonalIsSizeOrOne ==
  /\ pc = "crashed" => errors # <<>>
  /\ Processed =>
       /\ \A i \in 1..Len(ixs) :
            /\ Cardinality(ixs[i].v) >= 5
            /\ nb_members_matrix[i][i] =
                 IF cfg.NORMALIZE THEN <<1, 1>> ELSE <<Cardinality(ixs[i].v), 1>>
       /\ Wrote => \A i \in 1..Len(sorted_labels) :
            sorted_matrix[i][i] =
              IF cfg.NORMALIZE THEN <<1, 1>>
              ELSE <<Cardinality(Get(ixs, sorted_labels[i])), 1>>

\* a normalized heatmap of three exchanges or more
C6_Witness == cfg.NORMALIZE /\ Wrote /\ Len(ixs) >= 3

\* C7: on the worked example, wherever its three exchanges are hosted, the
\* region has 9 distinct ASNs and a threshold of 5, IX_A and IX_B stay, IX_C
\* is removed, and the region is skipped with a warning and no matrix.
C7_WorkedExample ==
  \A ca, cb, cc \in {AF, AS} :
    (Processed /\ res = ExampleRelation(ca, cb, cc)) =>
      /\ Cardinality(asns) = 9
      /\ threshold_ixp = 5
      /\ Keys(ixs) = <<Lower(IxName(IX_A, ca)), Lower(IxName(IX_B, cb))>>
      /\ to_remove = <<Lower(IxName(IX_C, cc))>>
      /\ Len(nb_members_matrix) = 2
      /\ Warned
      /\ ~Wrote

\* the example in a region that hosts IX_C and not IX_A
C7_Witness ==
  /\ Processed
  /\ \E cb \in {AF, AS} :
       res = ExampleRelation(IF Region = AF THEN AS ELSE AF, cb, Region)

\* C8, as claimed: under an invalid configuration no region is ever queried.
C8_InvalidConfigNeverRuns == ~ValidConfig(cfg) => queried = <<>>

\* C8, amended: nothing validates the configuration.  Whatever the sign of
\* the constants, each region is queried with HEGE_MIN and EYEBALL_MIN_PERC
\* as they are and processed; the pruning threshold is max(int(total *
\* MIN_NB_AS), 5), which is 5 when MIN_NB_AS is negative.
C8_ConfigIsUsedUnchecked ==
  Processed =>
    /\ queried[ci] = [country_code |-> Region, hege_min |-> cfg.HEGE_MIN,
                      eyeball_min_perc |-> cfg.EYEBALL_MIN_PERC]
    /\ threshold_ixp =
         IF cfg.MIN_NB_AS[1] < 0 THEN 5
         ELSE Max((Cardinality(AsnsIn(res)) * cfg.MIN_NB_AS[1]) \div cfg.MIN_NB_AS[2], 5)
    /\ Wrote \/ Warned

\* a heatmap written under a negative MIN_NB_AS for a region of 120 ASNs
C8_Witness ==
  /\ Wrote
  /\ cfg.MIN_NB_AS[1] < 0
  /\ Cardinality(AsnsIn(res)) >= 120

\* C9: the labels given to the heatmap are all the surviving labels, cluster
\* by cluster with ids ascending, each cluster in the order of the pruned
\* dict.
C9_GroupedByAscendingCluster ==
  Wrote => sorted_labels = GroupedByCluster(clusters, Keys(ixs), MaxOf(IdsOf(clusters)))

\* C10: what an iteration leaves (dicts, threshold, title, and asns, which
\* the title loop rebinds to the peers of the last country it lists) is
\* what the region's own relation says, whatever earlier iterations left.
C10_RegionsAreIndependent ==
  Processed =>
    /\ threshold_ixp = FractionalMinimum(res)
    /\ KeySet(ixs) \subseteq LabelsIn(res)
    /\ \A i \in 1..Len(ixs) : ixs[i].v = MembersAt(res, ixs[i].k)
    /\ KeySet(countries) = {res[i].ix_country : i \in 1..Len(res)}
    /\ \A i \in 1..Len(countries) : countries[i].v = PeersIn(res, countries[i].k)
    /\ KeySet(membership_per_dataset) = {res[i].data_source : i \in 1..Len(res)}
    /\ \A i \in 1..Len(membership_per_dataset) :
         membership_per_dataset[i].v = ReportedBy(res, membership_per_dataset[i].k)
    /\ IF Wrote
         THEN /\ title.country_code = Region
              /\ title.nb_asns = Cardinality(AsnsIn(res))
              /\ title.threshold = FractionalMinimum(res)
              /\ \A i \in 1..Len(title.datasets) :
                   title.datasets[i][2] =
                     Cardinality(ReportedBy(res, title.datasets[i][1]))
              /\ \A i \in 1..Len(title.top) :
                   title.top[i][2] = Cardinality(PeersIn(res, title.top[i][1]))
              /\ asns = PeersIn(res, title.top[Len(title.top)][1])
         ELSE asns = AsnsIn(res)

\* a second region wrote its heatmap after the first one had written its
\* own and left asns rebound
C10_Witness ==
  /\ ci >= 2
  /\ Wrote
  /\ written[1] = COUNTRY_CODES[1]
  /\ Len(written) >= 2

====
